---- MODULE Spec2Model ----
(***************************************************************************)
(* Event-based backtesting engine of the algorithmic trading platform:     *)
(* BacktestEngine (src/src/application/backtesting.py) replaying an input  *)
(* DataFrame under a TradingStrategy (src/src/domain/strategy.py).         *)
(*                                                                         *)
(* Money is held in fixed point: a monetary amount m is represented by the *)
(* integer m * Den, and the proportional cost ptc by its numerator over    *)
(* Den, so that units * price * (1 +/- ptc) is exact.  All the values the  *)
(* model draws are exactly representable as Python floats, so the float    *)
(* arithmetic of the code is exact on them as well.                        *)
(***************************************************************************)
EXTENDS Integers, Sequences, FiniteSets, TLC

\* ------------------------------------------------------------------ bounds
MaxLen == 3
MaxPrice == 2
MaxLenRepeat == 2
MaxRuns == 2
MaxLenInput == 2
MaxInd == 2
MaxLenStrategy == 3
MaxWindow == 4
MaxLenOpt == 3
MaxFirstList == 2
MaxSecondList == 2
MaxCapital == 3
MaxPnl == 2
MaxCalls == 3
MaxLenOverlay == 2

\* Fixed-point denominator of money and of ptc (ptc = ptcNum / Den).
Den == 2

InitialCashValues == {1, 3}
FtcValues == {0, 1, 3}
PtcValues == {0, 1}
Prices == 1..MaxPrice
Signals == {"BUY", "SELL", "HOLD"}

VARIABLES
    frames,            \* heap of DataFrame objects; frames[callerRef] is the caller's
    data,              \* run_backtest's local `data`: a reference into frames
    strategy,          \* self.strategy: the strategy object (its class and parameters)
    initial_cash,      \* self.initial_cash (fixed point)
    ftc,               \* self.ftc (fixed point)
    ptc,               \* self.ptc (numerator over Den)
    cash,              \* self.cash (fixed point)
    position,          \* self.position
    trades,            \* self.trades
    results,           \* self.results (<<>> is the empty dict)
    portfolio_values,  \* run_backtest's local list
    i,                 \* next row of data.iterrows()
    date,              \* loop variable `date` (0: unbound)
    price,             \* loop variable `price` (0: unbound)
    pc,                \* position in the engine's life
    engine,            \* identity of the engine object the ledger belongs to
    runs,              \* run_backtest calls started on this engine
    history,           \* how every run_backtest call so far ended
    opt,               \* optimize_parameters' arguments and locals (<<>>: no search)
    risk               \* the RiskControl object (<<>>: none constructed)

vars == <<frames, data, strategy, initial_cash, ftc, ptc, cash, position, trades, results,
          portfolio_values, i, date, price, pc, engine, runs, history, opt, risk>>

ledger == <<cash, position, trades>>
params == <<strategy, initial_cash, ftc, ptc>>

\* The caller's DataFrame is the first object of the heap.
callerRef == 1

\* Columns MarketDataService.get_historical_data gives the frame.
BaseColumns == {"symbol", "timestamp", "open_price", "high_price", "low_price",
                "close_price", "volume"}

\* ---------------------------------------------------------------- strategy

\* An indicator value is <<>> (NaN) or the rational <<num, den>>, den > 0.
\* Every comparison with NaN is false.
NaN == <<>>
Num(v) == <<v, 1>>
Gt(a, b) ==
    /\ a # NaN
    /\ b # NaN
    /\ IF a[2] = b[2] THEN a[1] > b[1] ELSE a[1] * b[2] > b[1] * a[2]
Lt(a, b) == Gt(b, a)

\* r with the fields of upd added or overwritten: df[col] = ... on one row.
WithFields(r, upd) ==
    [f \in DOMAIN r \cup DOMAIN upd |-> IF f \in DOMAIN upd THEN upd[f] ELSE r[f]]

RECURSIVE SumOver(_, _, _)
SumOver(xs, lo, hi) == IF lo > hi THEN 0 ELSE xs[hi] + SumOver(xs, lo, hi - 1)

\* Series.rolling(window=w).mean() at row k: NaN until the window is filled.
RollingMean(xs, k, w) == IF k < w THEN NaN ELSE <<SumOver(xs, k - w + 1, k), w>>

Closes(rows) == [k \in DOMAIN rows |-> rows[k].close_price]

\* Every compute_indicators writes its columns on the frame it is given.
AddColumns(fs, ref, names, values) ==
    [fs EXCEPT ![ref].cols = @ \cup names,
               ![ref].rows = [k \in DOMAIN @ |-> WithFields(@[k], values[k])]]

\* SMAStrategy.compute_indicators (lines 25-29).
SMA_compute_indicators(fs, ref) ==
    LET xs == Closes(fs[ref].rows)
        at(k) == [short_sma |-> RollingMean(xs, k, strategy.short_window),
                  long_sma |-> RollingMean(xs, k, strategy.long_window)]
    IN AddColumns(fs, ref, {"short_sma", "long_sma"}, [k \in DOMAIN xs |-> at(k)])

\* MomentumStrategy.compute_indicators (lines 46-49): pct_change(lookback) is
\* x[k] / x[k - lookback] - 1, NaN for the first lookback rows.
Momentum_compute_indicators(fs, ref) ==
    LET xs == Closes(fs[ref].rows)
        lb == strategy.lookback
        at(k) == [momentum |-> IF k <= lb THEN NaN
                               ELSE <<xs[k] - xs[k - lb], xs[k - lb]>>]
    IN AddColumns(fs, ref, {"momentum"}, [k \in DOMAIN xs |-> at(k)])

\* RSIStrategy.compute_indicators (lines 90-97).  delta is NaN at the first
\* row, and where(cond, 0) puts 0 there; gain and loss are rolling means over
\* `period` rows, so rs = gain / loss is the ratio of the two sums G / L and
\* RSI = 100 - 100 / (1 + rs) = 100 * G / (G + L), NaN when G = L = 0 (0 / 0)
\* and 100 when only L = 0 (rs = inf).
RSI_compute_indicators(fs, ref) ==
    LET xs == Closes(fs[ref].rows)
        n == Len(xs)
        delta(k) == IF k = 1 THEN 0 ELSE xs[k] - xs[k - 1]
        gains == [k \in 1..n |-> IF delta(k) > 0 THEN delta(k) ELSE 0]
        losses == [k \in 1..n |-> IF delta(k) < 0 THEN -delta(k) ELSE 0]
        w == strategy.period
        at(k) == [RSI |->
                    IF k < w THEN NaN
                    ELSE LET G == SumOver(gains, k - w + 1, k)
                             L == SumOver(losses, k - w + 1, k)
                         IN IF G + L = 0 THEN NaN ELSE <<100 * G, G + L>>]
    IN AddColumns(fs, ref, {"RSI"}, [k \in DOMAIN xs |-> at(k)])

\* strategy.compute_indicators(data): the columns are added to the frame it is
\* given and that same object is returned.  A strategy whose decisions are
\* given with the rows (kind "TradingStrategy") adds its column names alone.
compute_indicators(fs, ref) ==
    [frames |->
        CASE strategy.kind = "SMA" -> SMA_compute_indicators(fs, ref)
          [] strategy.kind = "Momentum" -> Momentum_compute_indicators(fs, ref)
          [] strategy.kind = "RSI" -> RSI_compute_indicators(fs, ref)
          [] strategy.kind = "TradingStrategy" ->
                [fs EXCEPT ![ref].cols = @ \cup {"short_sma", "long_sma"}],
     ret |-> ref]

\* SMAStrategy.generate_signal (lines 31-37).
SMA_generate_signal(row) ==
    IF Gt(row.short_sma, row.long_sma) THEN "BUY"
    ELSE IF Lt(row.short_sma, row.long_sma) THEN "SELL"
    ELSE "HOLD"

\* MomentumStrategy.generate_signal (lines 51-57).
Momentum_generate_signal(row) ==
    IF Gt(row.momentum, Num(0)) THEN "BUY"
    ELSE IF Lt(row.momentum, Num(0)) THEN "SELL"
    ELSE "HOLD"

\* MeanReversionStrategy.generate_signal (lines 74-80).
MeanReversion_generate_signal_sellFirst(row) ==
    IF Gt(row.zscore, Num(strategy.threshold)) THEN "SELL"
    ELSE IF Lt(row.zscore, Num(-strategy.threshold)) THEN "BUY"
    ELSE "HOLD"

MeanReversion_generate_signal(row) ==
    IF Lt(row.zscore, Num(-strategy.threshold)) THEN "BUY"
    ELSE IF Gt(row.zscore, Num(strategy.threshold)) THEN "SELL"
    ELSE "HOLD"

\* RSIStrategy.generate_signal (lines 99-105): None when neither level is crossed.
RSI_generate_signal(row) ==
    IF Lt(row.RSI, Num(strategy.oversold)) THEN "BUY"
    ELSE IF Gt(row.RSI, Num(strategy.overbought)) THEN "SELL"
    ELSE "None"

\* strategy.generate_signal(row): a function of the row and the strategy's
\* parameters alone.
generate_signal(row) ==
    CASE strategy.kind = "SMA" -> SMA_generate_signal(row)
      [] strategy.kind = "Momentum" -> Momentum_generate_signal(row)
      [] strategy.kind = "MeanReversion" -> MeanReversion_generate_signal(row)
      [] strategy.kind = "RSI" -> RSI_generate_signal(row)
      [] strategy.kind = "TradingStrategy" -> row.signal

\* -------------------------------------------------------------- RiskControl

\* No RiskControl object.
NoRisk == <<>>

\* max_drawdown is held in tenths and stop_loss_pct in hundredths; a capital
\* is <<>> (None) or <<c>>.
Tenths == 10
Hundredths == 100

\* RiskControl.__init__ (lines 15-19).  `returned` is what the last method
\* call gave back, `pnls` the arguments of update_capital since the last
\* initialize_capital, `calls` the number of method calls so far.
RiskInit(md, sl) ==
    [max_drawdown |-> md,
     stop_loss_pct |-> sl,
     initial_capital |-> <<>>,
     current_capital |-> <<>>,
     pnls |-> <<>>,
     returned |-> "none",
     calls |-> 0]

\* current_capital / initial_capital < (1 - max_drawdown), line 31, for
\* initial # 0.
DrawdownExceeded_orEqual(current, initial, md) ==
    IF initial > 0
    THEN current * Tenths <= initial * (Tenths - md)
    ELSE current * Tenths >= initial * (Tenths - md)

DrawdownExceeded(current, initial, md) ==
    IF initial > 0
    THEN current * Tenths < initial * (Tenths - md)
    ELSE current * Tenths > initial * (Tenths - md)

\* RiskControl.initialize_capital (lines 23-27).
InitializeCapital ==
    /\ pc = "risk"
    /\ risk.calls < MaxCalls
    /\ \E c0 \in 0..MaxCapital :
          risk' = [risk EXCEPT !.initial_capital = <<c0>>,
                               !.current_capital = <<c0>>,
                               !.pnls = <<>>,
                               !.returned = "None",
                               !.calls = @ + 1]
    /\ UNCHANGED <<frames, data, params, opt, ledger, results, portfolio_values, i, date,
                   price, pc, engine, runs, history>>

\* RiskControl.update_capital (lines 49-52): None += x raises TypeError.
UpdateCapital ==
    /\ pc = "risk"
    /\ risk.calls < MaxCalls
    /\ \E pnl \in (-MaxPnl)..MaxPnl :
          risk' = IF risk.current_capital = <<>>
                  THEN [risk EXCEPT !.returned = "TypeError", !.calls = @ + 1]
                  ELSE [risk EXCEPT !.current_capital = <<@[1] + pnl>>,
                                    !.pnls = Append(@, pnl),
                                    !.returned = "None",
                                    !.calls = @ + 1]
    /\ UNCHANGED <<frames, data, params, opt, ledger, results, portfolio_values, i, date,
                   price, pc, engine, runs, history>>

\* RiskControl.check_drawdown (lines 29-34): None / None raises TypeError, a
\* division by an initial capital of 0 raises ZeroDivisionError.
CheckDrawdown ==
    /\ pc = "risk"
    /\ risk.calls < MaxCalls
    /\ risk' = [risk EXCEPT
                  !.calls = @ + 1,
                  !.returned =
                      IF risk.initial_capital = <<>> THEN "TypeError"
                      ELSE IF risk.initial_capital[1] = 0 THEN "ZeroDivisionError"
                      ELSE IF DrawdownExceeded(risk.current_capital[1],
                                               risk.initial_capital[1],
                                               risk.max_drawdown)
                           THEN "True"
                           ELSE "False"]
    /\ UNCHANGED <<frames, data, params, opt, ledger, results, portfolio_values, i, date,
                   price, pc, engine, runs, history>>

\* RiskControl.apply_stop_loss (lines 43-47): the Stop Loss Price column,
\* close_price * (1 - stop_loss_pct), written on the frame it is given.
apply_stop_loss(fs, ref) ==
    [fs EXCEPT
        ![ref].cols = @ \cup {"Stop Loss Price"},
        ![ref].rows =
            [k \in DOMAIN @ |->
                WithFields(@[k],
                    [StopLossPrice |->
                        <<@[k].close_price * (Hundredths - risk.stop_loss_pct),
                          Hundredths>>])]]

\* ------------------------------------------------------------ execute_trade

\* int(x / y) for y # 0: Python truncates toward zero.
IntDiv(x, y) ==
    LET ax == IF x < 0 THEN -x ELSE x
        ay == IF y < 0 THEN -y ELSE y
        q == ax \div ay
    IN IF (x < 0) = (y < 0) THEN q ELSE -q

\* units = int(self.cash / price) when no units are given.  The optional
\* argument is <<>> for None and <<n>> for n units.
NoUnits == <<>>
DefaultUnits(c, p) == IntDiv(c, p * Den)

\* cost of a BUY, proceeds of a SELL (line 30), in fixed point.
TradeCost_noPrice(action, units, p) ==
    IF action = "BUY"
    THEN units * (Den + ptc) + ftc
    ELSE units * p * (Den - ptc) - ftc

TradeCost(action, units, p) ==
    IF action = "BUY"
    THEN units * p * (Den + ptc) + ftc
    ELSE units * p * (Den - ptc) - ftc

\* The guards of lines 32 and 36.
BuyAllowed(cost, c) == cost <= c
SellAllowed_strict(pos, units) == pos > units
SellAllowed(pos, units) == pos >= units

\* BacktestEngine.execute_trade: the ledger after the call.
execute_trade_sellHeld(d, p, action, unitsArg) ==
    LET units == IF unitsArg # NoUnits THEN unitsArg[1]
                 ELSE IF action = "SELL" THEN position
                 ELSE DefaultUnits(cash, p)
        cost == TradeCost(action, units, p)
    IN IF action = "BUY" /\ BuyAllowed(cost, cash)
       THEN [cash |-> cash - cost, position |-> position + units,
             trades |-> Append(trades, <<d, p, "BUY", units>>)]
       ELSE IF action = "SELL" /\ SellAllowed(position, units)
       THEN [cash |-> cash + cost, position |-> position - units,
             trades |-> Append(trades, <<d, p, "SELL", units>>)]
       ELSE [cash |-> cash, position |-> position, trades |-> trades]

execute_trade(d, p, action, unitsArg) ==
    LET units == IF unitsArg = NoUnits THEN DefaultUnits(cash, p) ELSE unitsArg[1]
        cost == TradeCost(action, units, p)
    IN IF action = "BUY" /\ BuyAllowed(cost, cash)
       THEN [cash |-> cash - cost, position |-> position + units,
             trades |-> Append(trades, <<d, p, "BUY", units>>)]
       ELSE IF action = "SELL" /\ SellAllowed(position, units)
       THEN [cash |-> cash + cost, position |-> position - units,
             trades |-> Append(trades, <<d, p, "SELL", units>>)]
       ELSE [cash |-> cash, position |-> position, trades |-> trades]

\* self.cash + (self.position * price), line 59, in fixed point.
PortfolioValue_cashOnly(c, pos, p) == c
PortfolioValue(c, pos, p) == c + pos * p * Den

\* ----------------------------------------------------------------- __init__

\* BacktestEngine.__init__: a new engine object with a fresh ledger.
EngineInit_sharedTrades(e) ==
    /\ engine' = e
    /\ cash' = initial_cash
    /\ position' = 0
    /\ trades' = trades
    /\ results' = <<>>
    /\ runs' = 0
    /\ pc' = "constructed"

EngineInit(e) ==
    /\ engine' = e
    /\ cash' = initial_cash
    /\ position' = 0
    /\ trades' = <<>>
    /\ results' = <<>>
    /\ runs' = 0
    /\ pc' = "constructed"

\* ------------------------------------------------------------- run_backtest

Rows(ref) == frames[ref].rows

\* Lines 44-46, run_backtest called with the frame `arg` of heap fs: indicators
\* computed on the frame passed in, the Position Size column set to 0 on the
\* frame compute_indicators returned.
RunBacktestOn(fs, arg) ==
    /\ pc \in {"constructed", "returned", "raised"}
    /\ pc = "constructed" \/ Len(history) < MaxRuns
    /\ LET r == compute_indicators(fs, arg)
           n == Len(r.frames[r.ret].rows)
       IN /\ data' = r.ret
          /\ frames' = [r.frames EXCEPT
                          ![r.ret].cols = @ \cup {"Position Size"},
                          ![r.ret].PositionSize = [k \in 1..n |-> 0]]
    /\ portfolio_values' = <<>>
    /\ i' = 1
    /\ runs' = runs + 1
    /\ pc' = "loop"
    /\ UNCHANGED <<params, opt, risk, ledger, results, date, price, engine, history>>

\* run_backtest called on the caller's own frame (main.py line 52).
RunBacktestStart == RunBacktestOn(frames, callerRef)

\* Lines 48-59: one iteration of the loop over data.iterrows().  On a BUY or
\* SELL signal at close price 0, int(self.cash / price) (line 28) raises
\* ZeroDivisionError out of run_backtest: the rows of a frame of mixed column
\* types hold Python floats.
LoopStep_haltOnBreach ==
    /\ pc = "loop"
    /\ i <= Len(Rows(data))
    /\ LET row == Rows(data)[i]
           breached == /\ risk # NoRisk
                       /\ risk.initial_capital # <<>>
                       /\ risk.initial_capital[1] > 0
                       /\ DrawdownExceeded(risk.current_capital[1],
                                           risk.initial_capital[1], risk.max_drawdown)
           signal == IF breached THEN "HOLD" ELSE generate_signal(row)
       IN /\ date' = row.timestamp
          /\ price' = row.close_price
          /\ IF signal \in {"BUY", "SELL"} /\ row.close_price = 0
             THEN /\ pc' = "raised"
                  /\ history' = Append(history,
                         [engine |-> engine, run |-> runs,
                          outcome |-> "ZeroDivisionError", results |-> <<>>])
                  /\ UNCHANGED <<ledger, frames, portfolio_values, i>>
             ELSE LET after ==
                         IF signal \in {"BUY", "SELL"}
                         THEN execute_trade(row.timestamp, row.close_price, signal, NoUnits)
                         ELSE [cash |-> cash, position |-> position, trades |-> trades]
                  IN /\ cash' = after.cash
                     /\ position' = after.position
                     /\ trades' = after.trades
                     /\ frames' = [frames EXCEPT ![data].PositionSize[i] = after.position]
                     /\ portfolio_values' =
                           Append(portfolio_values,
                                  PortfolioValue(after.cash, after.position,
                                                 row.close_price))
                     /\ i' = i + 1
                     /\ UNCHANGED <<pc, history>>
    /\ UNCHANGED <<data, params, opt, risk, results, engine, runs>>

LoopStep ==
    /\ pc = "loop"
    /\ i <= Len(Rows(data))
    /\ LET row == Rows(data)[i]
           signal == generate_signal(row)
       IN /\ date' = row.timestamp
          /\ price' = row.close_price
          /\ IF signal \in {"BUY", "SELL"} /\ row.close_price = 0
             THEN /\ pc' = "raised"
                  /\ history' = Append(history,
                         [engine |-> engine, run |-> runs,
                          outcome |-> "ZeroDivisionError", results |-> <<>>])
                  /\ UNCHANGED <<ledger, frames, portfolio_values, i>>
             ELSE LET after ==
                         IF signal \in {"BUY", "SELL"}
                         THEN execute_trade(row.timestamp, row.close_price, signal, NoUnits)
                         ELSE [cash |-> cash, position |-> position, trades |-> trades]
                  IN /\ cash' = after.cash
                     /\ position' = after.position
                     /\ trades' = after.trades
                     /\ frames' = [frames EXCEPT ![data].PositionSize[i] = after.position]
                     /\ portfolio_values' =
                           Append(portfolio_values,
                                  PortfolioValue(after.cash, after.position,
                                                 row.close_price))
                     /\ i' = i + 1
                     /\ UNCHANGED <<pc, history>>
    /\ UNCHANGED <<data, params, opt, risk, results, engine, runs>>

\* Lines 61-63: close out all positions.
CloseOut_noLiquidation ==
    /\ pc = "loop"
    /\ i > Len(Rows(data))
    /\ pc' = "report"
    /\ UNCHANGED <<frames, data, params, opt, risk, ledger, results, portfolio_values, i, date,
                   price, engine, runs, history>>

CloseOut ==
    /\ pc = "loop"
    /\ i > Len(Rows(data))
    /\ LET after == IF position > 0
                    THEN execute_trade(date, price, "SELL", <<position>>)
                    ELSE [cash |-> cash, position |-> position, trades |-> trades]
       IN /\ cash' = after.cash
          /\ position' = after.position
          /\ trades' = after.trades
    /\ pc' = "report"
    /\ UNCHANGED <<frames, data, params, opt, risk, results, portfolio_values, i, date, price,
                   engine, runs, history>>

\* ------------------------------------------------------------------ metrics

\* Floats that are not rationals: +inf as <<1, 0>>, -inf as <<-1, 0>> (NaN is <<>>).
PosInf == <<1, 0>>
MinusInf == <<-1, 0>>

RECURSIVE Gcd(_, _)
Gcd(a, b) == IF b = 0 THEN a ELSE Gcd(b, a % b)

\* The rational n / d, d > 0, in lowest terms.
Ratio(n, d) ==
    LET g == Gcd(IF n < 0 THEN -n ELSE n, d)
    IN <<n \div g, d \div g>>

\* cur / prev - 1 on floats: a division by 0.0 in a Series gives inf, -inf or
\* NaN (0 / 0) and raises nothing.
PctChange(prev, cur) ==
    IF prev = 0
    THEN IF cur = 0 THEN NaN ELSE IF cur > 0 THEN PosInf ELSE MinusInf
    ELSE IF prev > 0 THEN Ratio(cur - prev, prev) ELSE Ratio(prev - cur, -prev)

\* pd.Series(portfolio_values).pct_change().dropna(), line 68.
StepReturns(nw) ==
    SelectSeq([k \in 1..(Len(nw) - 1) |-> PctChange(nw[k], nw[k + 1])],
              LAMBDA r : r # NaN)

\* Series.cummax() at row k.
RECURSIVE CumMax(_, _)
CumMax(xs, k) ==
    IF k = 1 THEN xs[1]
    ELSE LET m == CumMax(xs, k - 1) IN IF xs[k] > m THEN xs[k] ELSE m

\* Series.min(): NaN entries are skipped, NaN when nothing is left.
RECURSIVE SeriesMin(_)
SeriesMin(ds) ==
    IF ds = <<>> THEN NaN
    ELSE LET h == Head(ds)
             rest == SeriesMin(Tail(ds))
         IN IF h = NaN THEN rest
            ELSE IF rest = NaN THEN h
            ELSE IF Lt(rest, h) THEN rest ELSE h

\* BacktestEngine.compute_max_drawdown (lines 91-93).
compute_max_drawdown(nw) ==
    SeriesMin([k \in DOMAIN nw |-> PctChange(CumMax(nw, k), nw[k])])

\* Series.std() (sample standard deviation): NaN for fewer than two values or
\* an infinite one, 0 when all values are equal, positive otherwise.
SameNumber(a, b) == a[1] * b[2] = b[1] * a[2]
StdOf(rs) ==
    IF Len(rs) < 2 \/ \E k \in DOMAIN rs : rs[k][2] = 0 THEN "nan"
    ELSE IF \A k \in DOMAIN rs : SameNumber(rs[k], rs[1]) THEN "zero"
    ELSE "positive"

\* compute_sharpe_ratio (lines 88-89) and compute_sortino_ratio (lines 95-97):
\* NaN when the standard deviation is 0 (the else branch) or NaN (a division
\* by NaN), otherwise the number (mean - risk_free_rate) / std, kept as the
\* two series it is computed from.
compute_sharpe_ratio(returns) ==
    IF StdOf(returns) = "positive"
    THEN [mean_of |-> returns, std_of |-> returns]
    ELSE NaN

compute_sortino_ratio(returns) ==
    LET downside_returns == SelectSeq(returns, LAMBDA r : Lt(r, Num(0)))
    IN IF StdOf(downside_returns) = "positive"
       THEN [mean_of |-> returns, std_of |-> downside_returns]
       ELSE NaN

\* Lines 66-86: the net_wealth column and the results dict.  On an empty frame
\* data["net_wealth"].iloc[-1] raises IndexError after the column was added.
\* Lines 79-82: the Stop Loss Price entry, present when the frame has the column.
StopLossEntry ==
    IF "Stop Loss Price" \in frames[data].cols
    THEN [StopLossPrice |-> [k \in DOMAIN Rows(data) |-> Rows(data)[k].StopLossPrice]]
    ELSE <<>>

BuildResults(nw) ==
  WithFields(
    [FinalBalance |-> cash,
     FinalNetWealth |-> nw[Len(nw)],
     Performance |-> <<(nw[Len(nw)] - initial_cash) * 100, initial_cash>>,
     TotalTrades |-> Len(trades),
     PositionSize |-> frames[data].PositionSize,
     SharpeRatio |-> compute_sharpe_ratio(StepReturns(nw)),
     SortinoRatio |-> compute_sortino_ratio(StepReturns(nw)),
     MaxDrawdown |-> compute_max_drawdown(nw),
     net_wealth |-> nw],
    StopLossEntry)

Report ==
    /\ pc = "report"
    /\ frames' = [frames EXCEPT ![data].cols = @ \cup {"net_wealth"},
                                ![data].net_wealth = portfolio_values]
    /\ IF Len(portfolio_values) = 0
       THEN /\ pc' = "raised"
            /\ results' = results
            /\ history' = Append(history, [engine |-> engine, run |-> runs,
                                           outcome |-> "IndexError", results |-> <<>>])
       ELSE /\ pc' = "returned"
            /\ results' = BuildResults(portfolio_values)
            /\ history' = Append(history, [engine |-> engine, run |-> runs,
                                           outcome |-> "returned",
                                           results |-> BuildResults(portfolio_values)])
    /\ UNCHANGED <<data, params, opt, risk, ledger, portfolio_values, i, date, price, engine, runs>>

\* A caller constructing another engine with the same parameters (main.py
\* line 51, optimize_parameters line 109).
Construct ==
    /\ pc \in {"returned", "raised"}
    /\ Len(history) < MaxRuns
    /\ EngineInit(engine + 1)
    /\ UNCHANGED <<frames, data, params, opt, risk, portfolio_values, i, date, price, history>>

\* ------------------------------------------------------ optimize_parameters

\* No optimize_parameters call in progress.
NoSearch == <<>>

\* BacktestEngine(strategy) at line 109 takes the defaults of __init__.
DefaultInitialCash == 10000
DefaultFtc == 0
DefaultPtc == 0

\* -float("inf") as a ratio: Gt(x, NegInf) for every number x, never Gt(NegInf, x).
NegInf == <<-1, 0>>

\* list(product(A, B)): the pairs in enumeration order, the first list slowest.
Product2_zip(A, B) ==
    [k \in 1..(IF Len(A) < Len(B) THEN Len(A) ELSE Len(B)) |-> <<A[k], B[k]>>]

Product2(A, B) ==
    [k \in 1..(Len(A) * Len(B)) |->
        <<A[((k - 1) \div Len(B)) + 1], B[((k - 1) % Len(B)) + 1]>>]

\* dict(zip(param_grid.keys(), params)).
ParamDict(keys, combo) ==
    [name \in {keys[1], keys[2]} |-> IF name = keys[1] THEN combo[1] ELSE combo[2]]

\* data.copy(): a new frame object with the same contents.
CopyFrame_alias(fs, ref) == [frames |-> fs, ret |-> ref]
CopyFrame(fs, ref) == [frames |-> Append(fs, fs[ref]), ret |-> Len(fs) + 1]

\* performance > best_performance (line 113).
OptBetter_orEqual(performance, best) == ~Gt(best, performance)
OptBetter(performance, best) == Gt(performance, best)

\* Lines 102-105: the call optimize_parameters(data, SMAStrategy, param_grid),
\* param_grid = {keys[1]: values[1], keys[2]: values[2]}, up to the loop.
OptStart(keys, values) ==
    [keys |-> keys,
     values |-> values,
     param_combinations |-> Product2(values[1], values[2]),
     k |-> 1,
     best_performance |-> NegInf,
     best_params |-> <<>>,
     best_results |-> <<>>,
     evaluated |-> <<>>,
     returned |-> <<>>]

\* Lines 108-109: strategy = strategy_class(**...); engine = BacktestEngine(strategy).
OptConstruct ==
    /\ pc = "opt:loop"
    /\ opt.k <= Len(opt.param_combinations)
    /\ strategy' = WithFields([kind |-> "SMA"],
                              ParamDict(opt.keys, opt.param_combinations[opt.k]))
    /\ initial_cash' = DefaultInitialCash * Den
    /\ ftc' = DefaultFtc * Den
    /\ ptc' = DefaultPtc
    /\ engine' = engine + 1
    /\ cash' = DefaultInitialCash * Den
    /\ position' = 0
    /\ trades' = <<>>
    /\ results' = <<>>
    /\ runs' = 0
    /\ pc' = "constructed"
    /\ UNCHANGED <<frames, data, portfolio_values, i, date, price, history, opt, risk>>

\* Line 110: engine.run_backtest(data.copy()), up to run_backtest's loop.
OptRun ==
    /\ pc = "constructed"
    /\ opt # NoSearch
    /\ LET c == CopyFrame(frames, callerRef)
       IN RunBacktestOn(c.frames, c.ret)

\* Line 110, run_backtest raising: no handler in optimize_parameters, the
\* exception leaves it and the search ends there.
OptPropagate ==
    /\ pc = "raised"
    /\ opt # NoSearch
    /\ pc' = "opt:raised"
    /\ UNCHANGED <<frames, data, params, ledger, results, portfolio_values, i, date,
                   price, engine, runs, history, opt, risk>>

\* Lines 111-116: the trial's performance against the best so far.
OptRecord ==
    /\ pc = "returned"
    /\ opt # NoSearch
    /\ LET performance == results.Performance
           these == ParamDict(opt.keys, opt.param_combinations[opt.k])
           better == OptBetter(performance, opt.best_performance)
       IN opt' = [opt EXCEPT
                    !.k = @ + 1,
                    !.evaluated = Append(@, [params |-> these, results |-> results]),
                    !.best_performance = IF better THEN performance ELSE @,
                    !.best_params = IF better THEN these ELSE @,
                    !.best_results = IF better THEN results ELSE @]
    /\ pc' = "opt:loop"
    /\ UNCHANGED <<frames, data, params, ledger, results, portfolio_values, i, date,
                   price, engine, runs, history, risk>>

\* Lines 118-119: return best_params, best_results.
OptReturn ==
    /\ pc = "opt:loop"
    /\ opt.k > Len(opt.param_combinations)
    /\ opt' = [opt EXCEPT !.returned = <<opt.best_params, opt.best_results>>]
    /\ pc' = "opt:returned"
    /\ UNCHANGED <<frames, data, params, ledger, results, portfolio_values, i, date,
                   price, engine, runs, history, risk>>

\* ------------------------------------------------------------- specification

Observations(n) ==
    UNION {[1..k -> [close_price : Prices, signal : Signals]] : k \in 0..n}

\* The caller's frame: one row per observation, stamped ts[k].
NewFrameAt(obs, ts) ==
    [rows |-> [k \in 1..Len(obs) |->
                  [timestamp |-> ts[k], close_price |-> obs[k].close_price,
                   signal |-> obs[k].signal]],
     cols |-> BaseColumns,
     PositionSize |-> <<>>,
     net_wealth |-> <<>>]

\* Timestamps strictly increasing, as the market data collaborator gives them.
NewFrame(obs) == NewFrameAt(obs, [k \in 1..Len(obs) |-> k])

\* A newly constructed engine around strategy st, the frame fr in the caller's
\* hands, the program at `at`.
InitWithRisk(fr, st, at, rk) ==
    /\ frames = <<fr>>
    /\ data = callerRef
    /\ strategy = st
    /\ initial_cash \in {c * Den : c \in InitialCashValues}
    /\ ftc \in {f * Den : f \in FtcValues}
    /\ ptc \in PtcValues
    /\ cash = initial_cash
    /\ position = 0
    /\ trades = <<>>
    /\ results = <<>>
    /\ portfolio_values = <<>>
    /\ i = 1
    /\ date = 0
    /\ price = 0
    /\ pc = at
    /\ engine = 1
    /\ runs = 0
    /\ history = <<>>
    /\ opt = NoSearch
    /\ risk = rk

InitAt(fr, st, at) == InitWithRisk(fr, st, at, NoRisk)

\* A strategy whose decision for each row is given with the row.
GivenStrategy == [kind |-> "TradingStrategy"]

InitOn(fr) == InitAt(fr, GivenStrategy, "constructed")

InitWith(n) == \E obs \in Observations(n) : InitOn(NewFrame(obs))

Init == InitWith(MaxLen)

FirstRun ==
    /\ pc = "constructed"
    /\ RunBacktestStart

Next ==
    \/ FirstRun
    \/ LoopStep
    \/ CloseOut
    \/ Report

Spec == Init /\ [][Next]_vars

InitRepeat == InitWith(MaxLenRepeat)

NextRepeat ==
    \/ RunBacktestStart
    \/ LoopStep
    \/ CloseOut
    \/ Report
    \/ Construct

SpecRepeat == InitRepeat /\ [][NextRepeat]_vars

\* Frames as any caller may pass them: close prices that are zero or negative,
\* timestamps that repeat or go back.
InputPrices == (-1)..MaxPrice
Timestamps == 1..MaxLenInput

InputObservations ==
    UNION {[1..k -> [close_price : InputPrices, signal : Signals]] : k \in 0..MaxLenInput}

InitInput ==
    \E obs \in InputObservations :
        \E ts \in [1..Len(obs) -> Timestamps] : InitOn(NewFrameAt(obs, ts))

NextInput ==
    \/ FirstRun
    \/ LoopStep
    \/ CloseOut
    \/ Report

SpecInput == InitInput /\ [][NextInput]_vars

\* main.py line 48, df["signal"] = df.apply(strategy.generate_signal, axis=1),
\* on a frame that holds the strategy's indicator columns: generate_signal
\* applied to every row.
ApplySignals ==
    /\ pc = "signals"
    /\ frames' = [frames EXCEPT
                    ![callerRef].cols = @ \cup {"signal"},
                    ![callerRef].rows =
                        [k \in DOMAIN @ |->
                            WithFields(@[k], [signal |-> generate_signal(@[k])])]]
    /\ pc' = "signalled"
    /\ UNCHANGED <<data, params, opt, risk, ledger, results, portfolio_values, i, date, price,
                   engine, runs, history>>

\* Indicator values and levels the signal rules are tried on.
IndValues == (-MaxInd)..MaxInd
IndicatorValues == {NaN} \cup {Num(v) : v \in IndValues}

SignalInstances ==
    {[kind |-> "SMA", short_window |-> 50, long_window |-> 200],
     [kind |-> "Momentum", lookback |-> 14]}
    \cup {[kind |-> "MeanReversion", window |-> 50, threshold |-> t] : t \in IndValues}
    \cup {[kind |-> "RSI", period |-> 14, overbought |-> ob, oversold |-> os] :
             ob \in IndValues, os \in IndValues}

IndicatorColumns(st) ==
    CASE st.kind = "SMA" -> {"short_sma", "long_sma"}
      [] st.kind = "Momentum" -> {"momentum"}
      [] st.kind = "MeanReversion" -> {"mean", "std", "zscore"}
      [] st.kind = "RSI" -> {"RSI"}

IndicatorRows(st) ==
    CASE st.kind = "SMA" ->
            {[timestamp |-> 1, close_price |-> 1, short_sma |-> a, long_sma |-> b] :
                a \in IndicatorValues, b \in IndicatorValues}
      [] st.kind = "Momentum" ->
            {[timestamp |-> 1, close_price |-> 1, momentum |-> a] : a \in IndicatorValues}
      [] st.kind = "MeanReversion" ->
            {[timestamp |-> 1, close_price |-> 1, zscore |-> a] : a \in IndicatorValues}
      [] st.kind = "RSI" ->
            {[timestamp |-> 1, close_price |-> 1, RSI |-> a] : a \in IndicatorValues}

InitSignal ==
    \E st \in SignalInstances :
        \E row \in IndicatorRows(st) :
            InitAt([rows |-> <<row>>,
                    cols |-> BaseColumns \cup IndicatorColumns(st),
                    PositionSize |-> <<>>,
                    net_wealth |-> <<>>], st, "signals")

NextSignal == ApplySignals

SpecSignal == InitSignal /\ [][NextSignal]_vars

\* Runs with the strategies of src/domain/strategy.py computing their own
\* indicators over a frame of prices, as run_backtest does.
Windows == 1..MaxWindow

StrategyInstances ==
    {[kind |-> "RSI", period |-> 14, overbought |-> 70, oversold |-> 30]}
    \cup {[kind |-> "RSI", period |-> w, overbought |-> 70, oversold |-> 30] : w \in Windows}
    \cup {[kind |-> "SMA", short_window |-> a, long_window |-> b] : a \in Windows, b \in Windows}
    \cup {[kind |-> "Momentum", lookback |-> w] : w \in Windows}

PriceSeries(n) == UNION {[1..k -> Prices] : k \in 0..n}

PriceFrame(xs) ==
    [rows |-> [k \in 1..Len(xs) |-> [timestamp |-> k, close_price |-> xs[k]]],
     cols |-> BaseColumns,
     PositionSize |-> <<>>,
     net_wealth |-> <<>>]

InitStrategy ==
    \E st \in StrategyInstances :
        \E xs \in PriceSeries(MaxLenStrategy) :
            InitAt(PriceFrame(xs), st, "constructed")

NextStrategy ==
    \/ FirstRun
    \/ LoopStep
    \/ CloseOut
    \/ Report

SpecStrategy == InitStrategy /\ [][NextStrategy]_vars

\* optimize_parameters(data, SMAStrategy, param_grid) over a frame of prices,
\* param_grid = {"short_window": A, "long_window": B}: lists of windows in any
\* order, with repeats, empty, and with windows longer than the frame.
GridWindows == {1, 2, MaxWindow}
GridLists(n) == UNION {[1..m -> GridWindows] : m \in 0..n}
GridKeys == <<"short_window", "long_window">>
NoStrategy == [kind |-> "none"]

InitOpt ==
    \E xs \in PriceSeries(MaxLenOpt) :
        \E A \in GridLists(MaxFirstList) :
            \E B \in GridLists(MaxSecondList) :
                /\ frames = <<PriceFrame(xs)>>
                /\ data = callerRef
                /\ strategy = NoStrategy
                /\ initial_cash = DefaultInitialCash * Den
                /\ ftc = DefaultFtc * Den
                /\ ptc = DefaultPtc
                /\ cash = 0
                /\ position = 0
                /\ trades = <<>>
                /\ results = <<>>
                /\ portfolio_values = <<>>
                /\ i = 1
                /\ date = 0
                /\ price = 0
                /\ pc = "opt:loop"
                /\ engine = 0
                /\ runs = 0
                /\ history = <<>>
                /\ opt = OptStart(GridKeys, <<A, B>>)
                /\ risk = NoRisk

NextOpt ==
    \/ OptConstruct
    \/ OptRun
    \/ LoopStep
    \/ CloseOut
    \/ Report
    \/ OptPropagate
    \/ OptRecord
    \/ OptReturn

SpecOpt == InitOpt /\ [][NextOpt]_vars

\* Runs at the prices and cash of the worked scenarios: two observations with
\* closes between 100 and 110, any signals, the default engine (initial cash
\* 10000, no costs).
ScenarioCloses == 100..110

ScenarioObservations == [1..2 -> [close_price : ScenarioCloses, signal : Signals]]

InitScenario ==
    \E obs \in ScenarioObservations :
        /\ frames = <<NewFrame(obs)>>
        /\ data = callerRef
        /\ strategy = GivenStrategy
        /\ initial_cash = DefaultInitialCash * Den
        /\ ftc = DefaultFtc * Den
        /\ ptc = DefaultPtc
        /\ cash = initial_cash
        /\ position = 0
        /\ trades = <<>>
        /\ results = <<>>
        /\ portfolio_values = <<>>
        /\ i = 1
        /\ date = 0
        /\ price = 0
        /\ pc = "constructed"
        /\ engine = 1
        /\ runs = 0
        /\ history = <<>>
        /\ opt = NoSearch
        /\ risk = NoRisk

NextScenario ==
    \/ FirstRun
    \/ LoopStep
    \/ CloseOut
    \/ Report

SpecScenario == InitScenario /\ [][NextScenario]_vars

\* A RiskControl object on its own: constructed with any max_drawdown from 0
\* to 1 in tenths, then any calls of its capital methods.
DrawdownLimits == 0..Tenths
DefaultStopLossPct == 5

InitRisk ==
    /\ frames = <<>>
    /\ data = callerRef
    /\ strategy = NoStrategy
    /\ initial_cash = 0
    /\ ftc = 0
    /\ ptc = 0
    /\ cash = 0
    /\ position = 0
    /\ trades = <<>>
    /\ results = <<>>
    /\ portfolio_values = <<>>
    /\ i = 1
    /\ date = 0
    /\ price = 0
    /\ pc = "risk"
    /\ engine = 0
    /\ runs = 0
    /\ history = <<>>
    /\ opt = NoSearch
    /\ \E md \in DrawdownLimits : risk = RiskInit(md, DefaultStopLossPct)

NextRisk ==
    \/ InitializeCapital
    \/ UpdateCapital
    \/ CheckDrawdown

SpecRisk == InitRisk /\ [][NextRisk]_vars

\* main.py line 49, df = risk_manager.apply_stop_loss(df), before an engine
\* runs on df.
ApplyStopLoss ==
    /\ pc \in {"constructed", "returned", "raised"}
    /\ "Stop Loss Price" \notin frames[callerRef].cols
    /\ frames' = apply_stop_loss(frames, callerRef)
    /\ UNCHANGED <<data, params, opt, risk, ledger, results, portfolio_values, i, date,
                   price, pc, engine, runs, history>>

\* Engines run on a frame before and after the risk overlay wrote its column,
\* next to a RiskControl object that is new, within its drawdown limit, or
\* past it.
RiskStates ==
    {RiskInit(2, DefaultStopLossPct)}
    \cup {[RiskInit(2, DefaultStopLossPct) EXCEPT
              !.initial_capital = <<MaxCapital>>, !.current_capital = <<c>>] :
          c \in {1, MaxCapital}}

\* Rows at the lowest and the highest close price, with every signal.
OverlayObservations ==
    UNION {[1..k -> [close_price : {1, MaxPrice}, signal : Signals]] :
           k \in 0..MaxLenOverlay}

InitOverlay ==
    \E obs \in OverlayObservations :
        \E rk \in RiskStates :
            InitWithRisk(NewFrame(obs), GivenStrategy, "constructed", rk)

NextOverlay ==
    \/ ApplyStopLoss
    \/ RunBacktestStart
    \/ LoopStep
    \/ CloseOut
    \/ Report
    \/ Construct

SpecOverlay == InitOverlay /\ [][NextOverlay]_vars

\* ------------------------------------------------------------------ claims

NonEmpty == Len(Rows(callerRef)) > 0
Finished == pc \in {"returned", "raised"}

\* The row the loop is about to process, and the strategy's signal for it.
AtRow == pc = "loop" /\ i <= Len(Rows(data))
RowSignal == generate_signal(Rows(data)[i])
RowPrice == Rows(data)[i].close_price
RowDate == Rows(data)[i].timestamp

\* C1: conservation - in every state of a run (after each execute_trade call,
\* the forced liquidation included) cash >= 0 and position >= 0.
C1_Conservation == cash >= 0 /\ position >= 0

\* C2: terminal liquidation - when run_backtest returns for a non-empty
\* sequence with positive prices, the position is 0.
C2_TerminalLiquidation == (pc = "returned" /\ NonEmpty) => position = 0

\* C3: a BUY signal is executed only if cost = size * price * (1 + ptc) + ftc
\* is <= cash, with size floor(cash / price); when executed cash decreases by
\* exactly cost and position increases by size; otherwise cash, position and
\* trades are unchanged and the run continues with the next observation.
C3_BuyRule ==
    [][(AtRow /\ RowSignal = "BUY") =>
         LET size == cash \div (RowPrice * Den)
             cost == size * RowPrice * (Den + ptc) + ftc
         IN IF cost <= cash
            THEN /\ cash' = cash - cost
                 /\ position' = position + size
                 /\ trades' = Append(trades, <<RowDate, RowPrice, "BUY", size>>)
            ELSE /\ UNCHANGED ledger
                 /\ pc' = "loop"
                 /\ i' = i + 1]_vars

\* What the claim allows a SELL of `size` units at price p to do.
SellRule(size, d, p) ==
    IF position >= size
    THEN /\ cash' = cash + (size * p * (Den - ptc) - ftc)
         /\ position' = position - size
         /\ trades' = Append(trades, <<d, p, "SELL", size>>)
    ELSE /\ UNCHANGED ledger
         /\ pc' # "raised"

\* C4: a SELL (on a signal, or the forced liquidation) is executed only if the
\* held position is >= the requested size; when executed cash increases by
\* exactly size * price * (1 - ptc) - ftc and position decreases by size;
\* otherwise it is a no-op on cash, position and trades and raises no error.
C4_SellRule ==
    [][/\ (AtRow /\ RowSignal = "SELL") =>
             SellRule(IntDiv(cash, RowPrice * Den), RowDate, RowPrice)
       /\ (pc = "loop" /\ ~AtRow /\ position > 0) =>
             SellRule(position, date, price)]_vars

\* A SELL signal was skipped (row 1, nothing recorded for it) and a later SELL
\* signal of at least one unit was executed.
C4_Witness ==
    /\ pc = "loop"
    /\ i > 2
    /\ Rows(data)[1].signal = "SELL"
    /\ \A k \in DOMAIN trades : trades[k][1] # 1
    /\ \E k \in DOMAIN trades :
          /\ trades[k][3] = "SELL"
          /\ trades[k][4] > 0
          /\ Rows(data)[trades[k][1]].signal = "SELL"

\* C5: for every run over a non-empty sequence the reported Final Net Wealth
\* equals the reported Final Balance (the cash held after the forced
\* liquidation), also when ptc > 0 or ftc > 0.
C5_FinalNetWealthRealized ==
    (pc = "returned" /\ NonEmpty) => results.FinalNetWealth = results.FinalBalance

\* C6: equity curve identity - for every observation index k the recorded
\* net_wealth[k] equals cash[k] + position[k] * close[k] and the recorded
\* Position Size[k] equals position[k], cash[k] and position[k] being the
\* ledger after the signal of observation k was processed; the recorded
\* entries are kept to the end of the run and are what the result reports.
C6_EquityCurveIdentity ==
    /\ [][AtRow =>
            /\ Len(portfolio_values') = i
            /\ portfolio_values'[i] = cash' + position' * RowPrice * Den
            /\ frames'[data].PositionSize[i] = position'
            /\ \A k \in 1..(i - 1) :
                  /\ portfolio_values'[k] = portfolio_values[k]
                  /\ frames'[data].PositionSize[k] = frames[data].PositionSize[k]]_vars
    /\ [][(pc \in {"loop", "report"} /\ ~AtRow) =>
            /\ portfolio_values' = portfolio_values
            /\ frames'[data].PositionSize = frames[data].PositionSize]_vars
    /\ [](pc = "returned" =>
            /\ results.net_wealth = portfolio_values
            /\ frames[data].net_wealth = portfolio_values
            /\ results.PositionSize = frames[data].PositionSize)

\* A run returned whose equity curve has an entry with a held position.
C6_Witness ==
    /\ pc = "returned"
    /\ \E k \in DOMAIN results.PositionSize :
          /\ results.PositionSize[k] > 0
          /\ results.net_wealth[k] > 0
          /\ results.net_wealth[k] # results.FinalBalance

\* C7: after run_backtest(data) returns, the caller's data has the same columns
\* and the same values as before the call.
C7_CallerDataUntouched ==
    Finished =>
        /\ frames[callerRef].cols = BaseColumns
        /\ frames[callerRef].PositionSize = <<>>
        /\ frames[callerRef].net_wealth = <<>>

ReturnedOnce == \E k \in DOMAIN history : history[k].engine = engine

\* C9: once run_backtest has returned on an engine, no further change of cash,
\* position or trades happens on that engine, also when run_backtest is called
\* on it again.
C9_ClosedIsTerminal ==
    [][(ReturnedOnce /\ engine' = engine) => UNCHANGED ledger]_vars

\* C10: run_backtest on an empty observation sequence completes without an
\* exception, reports zero trades and Final Net Wealth equal to the initial
\* cash, and attempts no liquidation trade.
C10_EmptyRun ==
    (Finished /\ ~NonEmpty) =>
        /\ pc = "returned"
        /\ results.TotalTrades = 0
        /\ results.FinalNetWealth = initial_cash
        /\ trades = <<>>

\* C11: a BUY or SELL signal at a non-positive close price aborts the run with
\* InvalidPriceError; no trade is recorded at such a price and the ledger is
\* not updated from it.
C11_InvalidPrice ==
    [][(AtRow /\ RowSignal \in {"BUY", "SELL"} /\ RowPrice <= 0) =>
          /\ pc' = "raised"
          /\ history'[Len(history')].outcome = "InvalidPriceError"
          /\ UNCHANGED ledger]_vars

\* C12: a run over a sequence whose timestamps are not strictly increasing is
\* aborted with InvalidInputError before any trade is executed.
StrictlyIncreasing(rows) ==
    \A k \in 1..(Len(rows) - 1) : rows[k].timestamp < rows[k + 1].timestamp

C12_NonMonotonicRejected ==
    ~StrictlyIncreasing(Rows(callerRef)) =>
        /\ trades = <<>>
        /\ pc # "returned"
        /\ Finished => history[Len(history)].outcome = "InvalidInputError"

\* The BUY and SELL conditions of the decision table, per variant.
BuyCondition(row) ==
    CASE strategy.kind = "SMA" -> Gt(row.short_sma, row.long_sma)
      [] strategy.kind = "Momentum" -> Gt(row.momentum, Num(0))
      [] strategy.kind = "MeanReversion" -> Lt(row.zscore, Num(-strategy.threshold))
      [] strategy.kind = "RSI" -> Lt(row.RSI, Num(strategy.oversold))

SellCondition(row) ==
    CASE strategy.kind = "SMA" -> Lt(row.short_sma, row.long_sma)
      [] strategy.kind = "Momentum" -> Lt(row.momentum, Num(0))
      [] strategy.kind = "MeanReversion" -> Gt(row.zscore, Num(strategy.threshold))
      [] strategy.kind = "RSI" -> Gt(row.RSI, Num(strategy.overbought))

SignalledRows ==
    IF pc = "signalled" THEN {Rows(callerRef)[k] : k \in DOMAIN Rows(callerRef)} ELSE {}

\* C18 as stated: every variant returns BUY iff its BUY condition holds and
\* SELL iff its SELL condition holds.
C18_DecisionTableAsStated ==
    \A row \in SignalledRows :
        /\ row.signal = "BUY" <=> BuyCondition(row)
        /\ row.signal = "SELL" <=> SellCondition(row)

\* C18 (amended): every variant returns BUY iff its BUY condition holds, and
\* SELL iff its SELL condition holds and its BUY condition does not.
C18_DecisionTable ==
    \A row \in SignalledRows :
        /\ row.signal = "BUY" <=> BuyCondition(row)
        /\ row.signal = "SELL" <=> (SellCondition(row) /\ ~BuyCondition(row))

\* Both conditions hold on a row (a negative threshold, or oversold above
\* overbought) and the signal is BUY; a SELL was returned on another run.
C18_Witness ==
    \E row \in SignalledRows :
        /\ BuyCondition(row)
        /\ SellCondition(row)
        /\ row.signal = "BUY"

WindowNotFilled(k) ==
    CASE strategy.kind = "RSI" -> k < strategy.period
      [] strategy.kind = "SMA" -> k < strategy.short_window \/ k < strategy.long_window
      [] strategy.kind = "Momentum" -> k <= strategy.lookback

RSI14ShortHistory ==
    /\ strategy.kind = "RSI"
    /\ strategy.period = 14
    /\ Len(Rows(callerRef)) < 14

\* C20: RSI(period=14) over fewer than 14 observations signals HOLD at every
\* observation, trades nothing, ends with net wealth equal to initial cash and
\* raises nothing; and with any strategy, a row whose window is not filled
\* triggers no trade.
C20_InsufficientHistory ==
    /\ RSI14ShortHistory =>
          /\ AtRow => RowSignal = "HOLD"
          /\ trades = <<>>
          /\ pc # "raised"
          /\ pc = "returned" => (results.TotalTrades = 0 /\ results.FinalNetWealth = initial_cash)
    /\ (AtRow /\ WindowNotFilled(i)) => RowSignal \notin {"BUY", "SELL"}

\* The search has returned / the objective of its k-th evaluated trial.
SearchReturned == pc = "opt:returned"
Objective(k) == opt.evaluated[k].results.Performance
GridA == opt.values[1]
GridB == opt.values[2]

\* C13: optimize_parameters evaluates every combination of the Cartesian
\* product of the value lists; the returned winner's Performance is >= that of
\* every evaluated combination; the returned result is the result the
\* returned parameter set produced.
C13_OptimizerOptimality ==
    SearchReturned =>
        /\ Len(opt.evaluated) = Len(GridA) * Len(GridB)
        /\ \A a \in DOMAIN GridA, b \in DOMAIN GridB :
              \E k \in DOMAIN opt.evaluated :
                  opt.evaluated[k].params =
                      [short_window |-> GridA[a], long_window |-> GridB[b]]
        /\ opt.evaluated # <<>> =>
              /\ \A k \in DOMAIN opt.evaluated :
                    ~Gt(Objective(k), opt.returned[2].Performance)
              /\ \E k \in DOMAIN opt.evaluated :
                    /\ opt.evaluated[k].params = opt.returned[1]
                    /\ opt.evaluated[k].results = opt.returned[2]

\* A search of several trials returned a winner with a better objective than
\* its first trial, which lost money.
C13_Witness ==
    /\ SearchReturned
    /\ Len(opt.evaluated) > 2
    /\ Gt(opt.returned[2].Performance, Objective(1))
    /\ Gt(Num(0), Objective(1))

\* C14: among the combinations that reach the maximum objective, the one
\* returned is the first in the enumeration order of product(A, B) (A's index
\* slowest).
C14_TieBreak ==
    (SearchReturned /\ opt.evaluated # <<>>) =>
        \E a \in DOMAIN GridA, b \in DOMAIN GridB :
            LET k == (a - 1) * Len(GridB) + b
            IN /\ opt.returned[1] = [short_window |-> GridA[a], long_window |-> GridB[b]]
               /\ opt.returned[2] = opt.evaluated[k].results
               /\ \A j \in DOMAIN opt.evaluated : ~Gt(Objective(j), Objective(k))
               /\ \A j \in 1..(k - 1) : Gt(Objective(k), Objective(j))

\* Two different combinations reached the maximum, after a trial below it.
C14_Witness ==
    /\ SearchReturned
    /\ \E j, k \in DOMAIN opt.evaluated :
          /\ 1 < j
          /\ j < k
          /\ Gt(Objective(j), Objective(1))
          /\ opt.evaluated[j].params = opt.returned[1]
          /\ opt.evaluated[k].params # opt.returned[1]
          /\ Objective(k) = Objective(j)
          /\ \A m \in DOMAIN opt.evaluated : ~Gt(Objective(m), Objective(j))

\* C15: an exception in one trial does not leave optimize_parameters: the
\* trial is recorded with objective negative infinity, the remaining
\* combinations are evaluated and the best of the others is returned.
C15_TrialFailureIsolation ==
    /\ pc # "opt:raised"
    /\ \A k \in 1..Len(history) :
          (opt # NoSearch /\ history[k].outcome # "returned" /\ Len(opt.evaluated) >= k) =>
              Objective(k) = NegInf

\* The windows of the k-th evaluated trial do not fit the frame.
InvalidForHistory(k) ==
    \/ opt.evaluated[k].params.short_window > Len(Rows(callerRef))
    \/ opt.evaluated[k].params.long_window > Len(Rows(callerRef))

\* C16: a trial with a window longer than the history has objective negative
\* infinity, and is not the winner when a valid trial exists.
C16_InvalidWindow ==
    SearchReturned =>
        /\ \A k \in DOMAIN opt.evaluated :
              InvalidForHistory(k) => Objective(k) = NegInf
        /\ (\E k \in DOMAIN opt.evaluated : ~InvalidForHistory(k)) =>
              /\ opt.returned[1].short_window <= Len(Rows(callerRef))
              /\ opt.returned[1].long_window <= Len(Rows(callerRef))

\* C17: every trial starts from a fresh engine and runs on its own copy: the
\* caller's frame stays as it was given, and a combination's result is the
\* same wherever in the search it is evaluated, the first trial included.
C17_TrialIsolation ==
    opt # NoSearch =>
        /\ frames[callerRef] = PriceFrame(Closes(Rows(callerRef)))
        /\ pc = "constructed" => (cash = initial_cash /\ position = 0 /\ trades = <<>>)
        /\ pc \in {"loop", "report", "returned", "raised"} => data # callerRef
        /\ \A j, k \in DOMAIN opt.evaluated :
              opt.evaluated[j].params = opt.evaluated[k].params =>
                  opt.evaluated[j].results = opt.evaluated[k].results

\* A combination that trades was evaluated first and again after a different
\* combination, and the search returned.
C17_Witness ==
    /\ SearchReturned
    /\ Len(opt.evaluated) > 2
    /\ opt.evaluated[1].params = opt.evaluated[3].params
    /\ opt.evaluated[1].params # opt.evaluated[2].params
    /\ opt.evaluated[3].results.TotalTrades > 0

\* C26: every recorded trade has a strictly positive quantity, and a signal
\* whose default quantity int(cash / price) is 0 changes neither cash nor the
\* trades (no fixed cost charged for a 0-unit order).
C26_PositiveQuantity ==
    [][/\ \A k \in DOMAIN trades' : trades'[k][4] > 0
       /\ (AtRow /\ RowSignal \in {"BUY", "SELL"} /\ IntDiv(cash, RowPrice * Den) = 0) =>
             (cash' = cash /\ trades' = trades)]_vars

\* C27: a SELL signal requests int(cash / price) units whatever the held
\* position is, so it empties a held position only when int(cash / price)
\* equals it; the forced liquidation sells exactly the held position.
C27_SellSignalQuantity ==
    [][/\ (AtRow /\ RowSignal = "SELL" /\ trades' # trades) =>
             /\ trades'[Len(trades')] =
                   <<RowDate, RowPrice, "SELL", IntDiv(cash, RowPrice * Den)>>
             /\ position' = position - IntDiv(cash, RowPrice * Den)
       /\ (AtRow /\ RowSignal = "SELL" /\ position > 0 /\ position' = 0) =>
             IntDiv(cash, RowPrice * Den) = position
       /\ (pc = "loop" /\ ~AtRow /\ position > 0) =>
             /\ trades' = Append(trades, <<date, price, "SELL", position>>)
             /\ position' = 0]_vars

\* A SELL signal left units in the position (it sold int(cash / price) of
\* them), and the forced liquidation then sold exactly what was held.
C27_Witness ==
    /\ pc = "report"
    /\ Len(trades) > 2
    /\ trades[Len(trades) - 1][3] = "SELL"
    /\ Rows(data)[trades[Len(trades) - 1][1]].signal = "SELL"
    /\ trades[Len(trades)][3] = "SELL"
    /\ trades[Len(trades)][4] > 0
    /\ position = 0

\* No costs and the same close price on every row.
NoCosts == ftc = 0 /\ ptc = 0
ConstantPrice ==
    \A j, k \in DOMAIN Rows(callerRef) :
        Rows(callerRef)[j].close_price = Rows(callerRef)[k].close_price

\* C22: with ftc = ptc = 0 and a constant close price, net wealth equals the
\* initial cash at every step whatever trades are executed, and the reported
\* Performance is exactly 0.
C22_ConstantPrice ==
    (NoCosts /\ ConstantPrice) =>
        /\ \A k \in DOMAIN portfolio_values : portfolio_values[k] = initial_cash
        /\ pc \in {"loop", "report", "returned"} =>
              cash + position * price * Den = initial_cash
        /\ pc = "returned" =>
              /\ results.Performance[1] = 0
              /\ results.FinalNetWealth = initial_cash

\* A run over three rows at one price, without costs, that bought and sold
\* units returned.
C22_Witness ==
    /\ NoCosts
    /\ ConstantPrice
    /\ pc = "returned"
    /\ Len(Rows(callerRef)) = 3
    /\ \E k \in DOMAIN trades : trades[k][3] = "BUY" /\ trades[k][4] > 0
    /\ \E k \in DOMAIN trades : trades[k][3] = "SELL" /\ trades[k][4] > 0

\* Scenario B: default engine, BUY signal at close 100, second close 110.
ScenarioB ==
    /\ initial_cash = 10000 * Den
    /\ NoCosts
    /\ Len(Rows(callerRef)) = 2
    /\ Rows(callerRef)[1].close_price = 100
    /\ Rows(callerRef)[1].signal = "BUY"
    /\ Rows(callerRef)[2].close_price = 110

\* C23: in Scenario B the run buys 100 units at 100, is force-liquidated at
\* 110 and reports Performance 10, whatever the second signal is.
C23_ScenarioB ==
    ScenarioB =>
        /\ (pc = "loop" /\ i > 1) => trades[1] = <<1, 100, "BUY", 100>>
        /\ (pc = "loop" /\ i = 2) => (position = 100 /\ cash = 0)
        /\ pc \in {"report", "returned"} =>
              /\ trades[Len(trades)] = <<2, 110, "SELL", 100>>
              /\ position = 0
              /\ cash = 11000 * Den
        /\ pc # "raised"
        /\ pc = "returned" => results.Performance[1] = 10 * results.Performance[2]

\* Scenario B returned after a SELL signal at the second observation.
C23_Witness ==
    /\ ScenarioB
    /\ Rows(callerRef)[2].signal = "SELL"
    /\ pc = "returned"

RECURSIVE SumSeq(_)
SumSeq(xs) == IF xs = <<>> THEN 0 ELSE xs[Len(xs)] + SumSeq(SubSeq(xs, 1, Len(xs) - 1))

\* C24: after initialize_capital(c0), c0 > 0, and any update_capital calls,
\* current_capital is c0 plus the sum of the pnl values, and check_drawdown
\* returns true exactly when current_capital / initial_capital is below
\* 1 - max_drawdown, changing neither capital.
C24_CheckDrawdown ==
    [][(risk # NoRisk /\ risk.initial_capital # <<>> /\ risk.initial_capital[1] > 0) =>
          /\ risk.current_capital[1] = risk.initial_capital[1] + SumSeq(risk.pnls)
          /\ (risk'.pnls = risk.pnls /\ risk'.initial_capital = risk.initial_capital
                /\ risk'.calls # risk.calls /\ risk'.returned # "None") =>
                /\ risk'.current_capital = risk.current_capital
                /\ risk'.returned \in {"True", "False"}
                /\ risk'.returned = "True" <=>
                      risk.current_capital[1] * 10 <
                          risk.initial_capital[1] * (10 - risk.max_drawdown)]_vars

\* check_drawdown returned True after an update_capital call on a positive
\* initial capital.
C24_Witness ==
    /\ risk # NoRisk
    /\ risk.initial_capital # <<>>
    /\ risk.initial_capital[1] > 1
    /\ Len(risk.pnls) > 0
    /\ risk.current_capital[1] > 0
    /\ risk.returned = "True"

\* The reported equity curve never falls from one step to the next.
NonDecreasing(xs) == \A k \in 1..(Len(xs) - 1) : xs[k] <= xs[k + 1]

\* C21: the Max Drawdown a run reports is a number <= 0, and it is 0 if and
\* only if the run's equity curve is non-decreasing.
C21_DrawdownBound ==
    pc = "returned" =>
        /\ results.MaxDrawdown # NaN
        /\ ~Gt(results.MaxDrawdown, Num(0))
        /\ results.MaxDrawdown[1] = 0 <=> NonDecreasing(results.net_wealth)

\* C25: with fewer than two step returns or returns of zero variance the
\* Sharpe Ratio is undefined, with no negative step return the Sortino Ratio
\* is undefined, and in both cases run_backtest returns its results.
FewOrEqualReturns ==
    LET rs == StepReturns(portfolio_values)
    IN Len(rs) < 2 \/ \A j, k \in DOMAIN rs : rs[j] = rs[k]

NoNegativeReturn ==
    LET rs == StepReturns(portfolio_values)
    IN \A k \in DOMAIN rs : ~Lt(rs[k], Num(0))

C25_DegenerateMetrics ==
    Finished =>
        /\ FewOrEqualReturns => (pc = "returned" /\ results.SharpeRatio = NaN)
        /\ NoNegativeReturn => (pc = "returned" /\ results.SortinoRatio = NaN)

\* What a finished run reports of its ledger.
LedgerView(h) ==
    IF h.outcome = "returned"
    THEN <<h.results.FinalBalance, h.results.FinalNetWealth, h.results.TotalTrades,
           h.results.PositionSize, h.results.net_wealth>>
    ELSE <<h.outcome>>

HasStopLossColumn == "Stop Loss Price" \in frames[callerRef].cols

====
